---- MODULE Spec2Model ----
(***************************************************************************)
(* Model of bepoyt.py: the Streamlit page that asks for a keyword, fetches *)
(* the last day of YouTube search interest through pytrends, buckets the   *)
(* samples by hour of day, smooths the hourly curve and reports the best   *)
(* hour with a confidence score.  get_best_time_for_keyword is wrapped in  *)
(* st.cache_data(ttl=3600).                                                *)
(*                                                                         *)
(* Conventions.  Python's None is the empty sequence <<>> and a present    *)
(* value x is <<x>>.  A keyword is a sequence of characters.  A DataFrame  *)
(* returned by interest_over_time() is a sequence of <<hour, value>> rows  *)
(* (the hour of the row's timestamp and the interest of the keyword).      *)
(* Numbers of the hourly curve are exact rationals <<num, den>>, den > 0,  *)
(* in lowest terms; float rounding is not modelled.                        *)
(***************************************************************************)
EXTENDS Integers, Sequences, FiniteSets, TLC

VARIABLES
    clock,        \* seconds since the session started
    feed,         \* the rows the trends service holds now (what a successful fetch returns)
    cache,        \* st.cache_data store: keyword -> <<>> or <<[value, msgs, at]>>
    pc,           \* position of the script run: idle, predelay, loop, backoff, done
    keyword,      \* argument of the call in progress
    error_count,  \* local of get_best_time_for_keyword
    data,         \* local of get_best_time_for_keyword: <<>> is None, <<rows>> a frame
    trace,        \* outcome of every fetch attempt of the call in progress, in order
    delayed,      \* whether the pre-call delay of line 116 was taken by this call
    sleeps,       \* number of backoff sleeps (line 140) of this call
    msgs,         \* st.error / st.warning elements shown by this call
    ret,          \* the tuple handed to main by the call
    viaMain,      \* whether the call came through main's form handler
    started,      \* clock at which the call started
    calls,        \* number of calls made so far
    hit,          \* whether the call was served from the cache
    prev          \* keyword -> <<>> or <<[at, value]>>: the last completed body run

vars == <<clock, feed, cache, pc, keyword, error_count, data, trace, delayed,
          sleeps, msgs, ret, viaMain, started, calls, hit, prev>>

----------------------------------------------------------------------------
(* Bounds of the model *)

MaxSamples == 4
MaxCalls == 2
MaxTicks == 2
MaxFetches == 4

Whitespace == {" "}
Hours == {0, 1, 2, 4, 23}
Values == {0, 30}

----------------------------------------------------------------------------
(* Program constants *)

ttl == 3600
\* the budget one attempt short
max_attempts_two == 3 - 1
max_attempts == 3
window == 3

\* the step of the clock: two thirds of the ttl, so that no call falls on the
\* instant an entry expires
TickStep == (2 * ttl) \div 3

----------------------------------------------------------------------------
(* Exact rational arithmetic *)

RECURSIVE Gcd(_, _)
Gcd(a, b) == IF b = 0 THEN a ELSE Gcd(b, a % b)

Abs(x) == IF x < 0 THEN -x ELSE x

Norm(n, d) == LET g == Gcd(Abs(n), d) IN <<n \div g, d \div g>>

RAdd(a, b) == Norm(a[1] * b[2] + b[1] * a[2], a[2] * b[2])
RSub(a, b) == Norm(a[1] * b[2] - b[1] * a[2], a[2] * b[2])
RMul(a, b) == Norm(a[1] * b[1], a[2] * b[2])
RDivInt(a, k) == Norm(a[1], a[2] * k)
RDiv(a, b) == Norm(a[1] * b[2], a[2] * b[1])
RLe(a, b) == a[1] * b[2] <= b[1] * a[2]
RLt(a, b) == a[1] * b[2] < b[1] * a[2]
REq(a, b) == a[1] * b[2] = b[1] * a[2]

RECURSIVE RSum(_)
RSum(s) == IF s = <<>> THEN <<0, 1>> ELSE RAdd(Head(s), RSum(Tail(s)))

----------------------------------------------------------------------------
(* Keywords: str.strip() *)

RECURSIVE LStrip(_)
LStrip(s) == IF s # <<>> /\ Head(s) \in Whitespace THEN LStrip(Tail(s)) ELSE s

RECURSIVE RStrip(_)
RStrip(s) ==
    IF s # <<>> /\ s[Len(s)] \in Whitespace
    THEN RStrip(SubSeq(s, 1, Len(s) - 1)) ELSE s

\* `not keyword` in place of `not keyword.strip()`
no_strip(s) == s
strip(s) == RStrip(LStrip(s))

\* `not keyword.strip()`
IsBlank(kw) == strip(kw) = <<>>

----------------------------------------------------------------------------
(* The hourly aggregation, lines 148-161.  A Series is a record           *)
(* [index |-> hours in ascending order, values |-> one rational per hour]. *)

Max(a, b) == IF a > b THEN a ELSE b
Min(a, b) == IF a < b THEN a ELSE b

RECURSIVE SortedSeq(_)
SortedSeq(S) ==
    IF S = {} THEN <<>>
    ELSE LET m == CHOOSE x \in S : \A y \in S : x <= y
         IN  <<m>> \o SortedSeq(S \ {m})

HoursOf(rows) == {rows[i][1] : i \in DOMAIN rows}

RECURSIVE SumAt(_, _)
SumAt(rows, h) ==
    IF rows = <<>> THEN 0
    ELSE (IF Head(rows)[1] = h THEN Head(rows)[2] ELSE 0) + SumAt(Tail(rows), h)

CountAt(rows, h) == Cardinality({i \in DOMAIN rows : rows[i][1] = h})

\* data.groupby('hour').mean()[keyword]: one row per hour present, sorted by hour
groupby_mean(rows) ==
    LET idx == SortedSeq(HoursOf(rows))
    IN  [index  |-> idx,
         values |-> [i \in DOMAIN idx |-> Norm(SumAt(rows, idx[i]), CountAt(rows, idx[i]))]]

\* the same with center=False: the window ends at the row
rolling_mean_trailing(s) ==
    LET n    == Len(s.index)
        Lo(i) == Max(1, i - (window - 1))
    IN  [index  |-> s.index,
         values |-> [i \in 1..n |->
                       RDivInt(RSum([j \in 1..(i - Lo(i) + 1) |-> s.values[Lo(i) + j - 1]]),
                               i - Lo(i) + 1)]]

\* .rolling(window=3, center=True, min_periods=1).mean(): the window is taken
\* over neighbouring ROWS of the series, whatever their hour labels
rolling_mean(s) ==
    LET n    == Len(s.index)
        half == (window - 1) \div 2
        Win(i) == Max(1, i - half) .. Min(n, i + half)
    IN  [index  |-> s.index,
         values |-> [i \in 1..n |->
                       RDivInt(RSum([j \in 1..Cardinality(Win(i)) |->
                                        s.values[Max(1, i - half) + j - 1]]),
                               Cardinality(Win(i)))]]

\* label of the last row holding the maximum
idxmax_last(s) ==
    LET n == Len(s.index)
        i == CHOOSE k \in 1..n :
                /\ \A j \in 1..n : RLe(s.values[j], s.values[k])
                /\ \A j \in (k + 1)..n : RLt(s.values[j], s.values[k])
    IN  s.index[i]

\* Series.idxmax(): label of the first row holding the maximum
idxmax(s) ==
    LET n == Len(s.index)
        i == CHOOSE k \in 1..n :
                /\ \A j \in 1..n : RLe(s.values[j], s.values[k])
                /\ \A j \in 1..(k - 1) : RLt(s.values[j], s.values[k])
    IN  s.index[i]

\* Series.mean()
mean(s) == RDivInt(RSum(s.values), Len(s.index))

\* square of Series.std() (ddof = 1); only defined for two rows or more
variance(s) ==
    LET n == Len(s.index)
        m == mean(s)
        d == [i \in 1..n |-> RMul(RSub(s.values[i], m), RSub(s.values[i], m))]
    IN  RDivInt(RSum(d), n - 1)

\* min(100, (1 - std / mean) * 100), line 159.  The score 100 * (1 - sqrt(q))
\* is represented by the rational q; the score is 100 exactly when q = 0,
\* at least 0 exactly when q <= 1, and at most 100 exactly when q >= 0.
\* std() of a single row is NaN and 0.0 / 0.0 is NaN (numpy floats do not
\* raise); min(100, nan) is 100 because `nan < 100` is False.
confidence_score(s) ==
    LET n   == Len(s.index)
        m   == mean(s)
        nan == n = 1 \/ m[1] = 0
    IN  IF nan THEN <<0, 1>> ELSE RDiv(variance(s), RMul(m, m))

ScoreAtLeast0(q) == RLe(q, <<1, 1>>)
ScoreAtMost100(q) == RLe(<<0, 1>>, q)

NoneTuple == [hourly_interest |-> <<>>, best_hour |-> <<>>, confidence_score |-> <<>>]

\* lines 148-161
Analyse(rows) ==
    LET hourly_interest == rolling_mean(groupby_mean(rows))
    IN  [hourly_interest  |-> <<hourly_interest>>,
         best_hour        |-> <<idxmax(hourly_interest)>>,
         confidence_score |-> <<confidence_score(hourly_interest)>>]

----------------------------------------------------------------------------
(* Inputs *)

RECURSIVE SeqsUpTo(_, _)
SeqsUpTo(S, n) ==
    IF n = 0 THEN {<<>>}
    ELSE LET shorter == SeqsUpTo(S, n - 1)
         IN  shorter \cup {Append(q, x) : q \in shorter, x \in S}

Keywords == {<<>>, <<" ">>, <<" ", " ">>, <<"a">>, <<" ", "a">>}

\* every frame of at most MaxSamples rows
AllFeeds == SeqsUpTo(Hours \X Values, MaxSamples)

\* the frames the session model switches between
SmallFeeds == {<<>>, <<<<0, 30>>>>, <<<<0, 0>>, <<1, 30>>>>}

\* lower-cased text of the exceptions a fetch attempt can raise, word by word
E429 == <<"the", "request", "failed", "google", "returned", "code", "429">>
E401 == <<"unauthorized", "code", "401">>
E404 == <<"the", "request", "failed", "google", "returned", "code", "404">>
Exceptions == {E429, E401, E404}

\* what the trace records for an attempt that returned a frame
GotEmpty == <<"empty">>
GotData == <<"data">>

\* `word in error_msg`
Contains(m, w) == \E i \in DOMAIN m : m[i] = w

----------------------------------------------------------------------------
(* st.cache_data(ttl=3600), lines 108-109: entries are keyed by the        *)
(* argument and expire ttl seconds after they were stored; every value     *)
(* the function RETURNS is stored, together with the elements it showed.   *)

\* ttl taken for milliseconds
FreshMillis(entry, now) == now - entry.at < ttl \div 1000
Fresh(entry, now) == now - entry.at < ttl

CacheHit(kw, now) == cache[kw] # <<>> /\ Fresh(cache[kw][1], now)

Idle ==
    /\ pc' = "idle"
    /\ keyword' = <<>>
    /\ error_count' = 0
    /\ data' = <<>>
    /\ trace' = <<>>
    /\ delayed' = FALSE
    /\ sleeps' = 0
    /\ msgs' = {}
    /\ ret' = NoneTuple
    /\ viaMain' = FALSE
    /\ started' = 0
    /\ hit' = FALSE

\* the function returns `value` having shown `shown`: the wrapper stores it
Return(value, shown) ==
    /\ ret' = value
    /\ msgs' = shown
    /\ cache' = [cache EXCEPT ![keyword'] =
                    <<[value |-> value, msgs |-> shown, at |-> clock]>>]
    /\ pc' = "done"

\* lines 163-171: the outer handler reports by the text of the exception
Report(e) ==
    IF Contains(e, "429") THEN "Too many requests"
    ELSE IF Contains(e, "authentication") \/ Contains(e, "unauthorized")
         THEN "Temporary API access issue"
         ELSE "An error occurred"

\* lines 144-146
NoData == Return(NoneTuple, {"No data available"})

\* the call get_best_time_for_keyword(kw) through the cache wrapper, up to the
\* pre-call delay: a fresh entry is returned (its elements replayed) without
\* running the body; otherwise the body runs, lines 111-116
Enter(kw) ==
    /\ keyword' = kw
    /\ started' = clock
    /\ calls' = calls + 1
    /\ error_count' = 0
    /\ data' = <<>>
    /\ trace' = <<>>
    /\ delayed' = FALSE
    /\ sleeps' = 0
    /\ hit' = CacheHit(kw, clock)
    /\ IF CacheHit(kw, clock)
       THEN /\ ret' = cache[kw][1].value
            /\ msgs' = cache[kw][1].msgs
            /\ pc' = "done"
            /\ cache' = cache
       ELSE IF IsBlank(kw)
            THEN Return(NoneTuple, {"Please enter a valid keyword"})
            ELSE /\ pc' = "predelay"
                 /\ ret' = NoneTuple
                 /\ msgs' = {}
                 /\ cache' = cache

Init ==
    /\ clock = 0
    /\ feed \in SmallFeeds
    /\ cache = [kw \in Keywords |-> <<>>]
    /\ pc = "idle"
    /\ keyword = <<>>
    /\ error_count = 0
    /\ data = <<>>
    /\ trace = <<>>
    /\ delayed = FALSE
    /\ sleeps = 0
    /\ msgs = {}
    /\ ret = NoneTuple
    /\ viaMain = FALSE
    /\ started = 0
    /\ calls = 0
    /\ hit = FALSE
    /\ prev = [kw \in Keywords |-> <<>>]

\* main, lines 188-194: the form was submitted with `kw`
Submit(kw) ==
    /\ pc = "idle"
    /\ calls < MaxCalls
    /\ viaMain' = TRUE
    /\ IF IsBlank(kw)
       THEN /\ keyword' = kw
            /\ started' = clock
            /\ calls' = calls + 1
            /\ msgs' = {"Please enter a keyword to analyze"}
            /\ ret' = NoneTuple
            /\ pc' = "done"
            /\ hit' = FALSE
            /\ UNCHANGED <<cache, error_count, data, trace, delayed, sleeps>>
       ELSE Enter(kw)
    /\ UNCHANGED <<clock, feed, prev>>

\* get_best_time_for_keyword(kw) called directly, lines 108-116.  Only a blank
\* keyword takes a path main does not: main never passes one on
Invoke(kw) ==
    /\ pc = "idle"
    /\ IsBlank(kw)
    /\ calls < MaxCalls
    /\ viaMain' = FALSE
    /\ Enter(kw)
    /\ UNCHANGED <<clock, feed, prev>>

\* line 116-122: time.sleep(random.uniform(2, 4)), then the locals and the
\* first test of the loop condition
PreCallDelay ==
    /\ pc = "predelay"
    /\ delayed' = TRUE
    /\ data' = <<>>
    /\ error_count' = 0
    /\ IF 0 < max_attempts
       THEN /\ pc' = "loop"
            /\ UNCHANGED <<ret, msgs, cache>>
       ELSE /\ keyword' = keyword
            /\ NoData
    /\ UNCHANGED <<clock, feed, keyword, trace, sleeps, viaMain, started, calls, hit, prev>>

\* lines 123-135 and 144-161: an attempt whose three pytrends calls return.
\* A non-empty frame leaves the loop and is analysed; an empty one goes back
\* to the loop condition with error_count unchanged.
FetchReturns ==
    /\ pc = "loop"
    /\ Len(trace) < MaxFetches
    /\ data' = <<feed>>
    /\ trace' = Append(trace, IF feed = <<>> THEN GotEmpty ELSE GotData)
    /\ IF feed # <<>>
       THEN /\ keyword' = keyword
            /\ Return(Analyse(feed), {})
       ELSE IF error_count < max_attempts
            THEN /\ pc' = "loop"
                 /\ UNCHANGED <<ret, msgs, cache>>
            ELSE /\ keyword' = keyword
                 /\ NoData
    /\ UNCHANGED <<clock, feed, keyword, error_count, delayed, sleeps, viaMain,
                   started, calls, hit, prev>>

\* lines 137-142 and 163-171: an attempt that raises `e`
FetchRaises(e) ==
    /\ pc = "loop"
    /\ Len(trace) < MaxFetches
    /\ trace' = Append(trace, e)
    /\ error_count' = error_count + 1
    /\ IF error_count + 1 < max_attempts
       THEN /\ pc' = "backoff"
            /\ UNCHANGED <<ret, msgs, cache>>
       ELSE /\ keyword' = keyword
            /\ Return(NoneTuple, {Report(e)})
    /\ UNCHANGED <<clock, feed, keyword, data, delayed, sleeps, viaMain, started,
                   calls, hit, prev>>

\* line 140 and 122: time.sleep(random.uniform(5, 8)), then the loop condition
BackoffSleep ==
    /\ pc = "backoff"
    /\ sleeps' = sleeps + 1
    /\ IF error_count < max_attempts
       THEN /\ pc' = "loop"
            /\ UNCHANGED <<ret, msgs, cache>>
       ELSE IF data = <<>> \/ data[1] = <<>>
            THEN /\ keyword' = keyword
                 /\ NoData
            ELSE /\ keyword' = keyword
                 /\ Return(Analyse(data[1]), {})
    /\ UNCHANGED <<clock, feed, keyword, error_count, data, trace, delayed,
                   viaMain, started, calls, hit, prev>>

\* main, lines 196-250: the outcome is rendered and the script run ends
Render ==
    /\ pc = "done"
    /\ prev' = IF delayed \/ (~viaMain /\ ~hit)
               THEN [prev EXCEPT ![keyword] = <<[at |-> clock, value |-> ret]>>]
               ELSE prev
    /\ Idle
    /\ UNCHANGED <<clock, feed, cache, calls>>

\* time passes between two submissions
Tick ==
    /\ pc = "idle"
    /\ clock < MaxTicks * TickStep
    /\ clock' = clock + TickStep
    /\ UNCHANGED <<feed, cache, pc, keyword, error_count, data, trace, delayed,
                   sleeps, msgs, ret, viaMain, started, calls, hit, prev>>

\* the trends service gets other data for the keyword
UpstreamChange(f) ==
    /\ pc \in {"idle", "loop"}
    /\ f # feed
    /\ feed' = f
    /\ UNCHANGED <<clock, cache, pc, keyword, error_count, data, trace, delayed,
                   sleeps, msgs, ret, viaMain, started, calls, hit, prev>>

Next ==
    \/ \E kw \in Keywords : Submit(kw)
    \/ \E kw \in Keywords : Invoke(kw)
    \/ PreCallDelay
    \/ FetchReturns
    \/ \E e \in Exceptions : FetchRaises(e)
    \/ BackoffSleep
    \/ Render
    \/ Tick
    \/ \E f \in SmallFeeds : UpstreamChange(f)

Spec == Init /\ [][Next]_vars

----------------------------------------------------------------------------
(* The aggregation on every frame of at most MaxSamples rows: one session  *)
(* in which the service holds a fixed non-empty frame and no attempt fails *)

InitAgg ==
    /\ clock = 0
    /\ feed \in AllFeeds \ {<<>>}
    /\ cache = [kw \in Keywords |-> <<>>]
    /\ pc = "idle"
    /\ keyword = <<>>
    /\ error_count = 0
    /\ data = <<>>
    /\ trace = <<>>
    /\ delayed = FALSE
    /\ sleeps = 0
    /\ msgs = {}
    /\ ret = NoneTuple
    /\ viaMain = FALSE
    /\ started = 0
    /\ calls = 0
    /\ hit = FALSE
    /\ prev = [kw \in Keywords |-> <<>>]

NextAgg ==
    \/ Submit(<<"a">>)
    \/ PreCallDelay
    \/ FetchReturns
    \/ Render

SpecAgg == InitAgg /\ [][NextAgg]_vars

----------------------------------------------------------------------------
(* Properties *)

InCall == pc # "idle"
Finished == pc = "done"
Succeeded == pc = "done" /\ ret.hourly_interest # <<>>
Curve == ret.hourly_interest[1]
AllWhitespace(kw) == \A i \in DOMAIN kw : kw[i] = " "
TraceIs429(n) == Len(trace) >= n /\ \A i \in 1..n : trace[i] = E429
NonTransient == {E401, E404}
SecondsPerDay == 24 * 3600
SameDay(t, u) == t \div SecondsPerDay = u \div SecondsPerDay

\* mean of the raw bucket means of `rows` at the hours of H
BucketMean(rows, h) == Norm(SumAt(rows, h), CountAt(rows, h))
MeanOver(rows, H) ==
    LET hs == SortedSeq(H)
    IN  RDivInt(RSum([i \in DOMAIN hs |-> BucketMean(rows, hs[i])]), Len(hs))

\* C1: once a fetch of the call has returned an empty frame, the call has
\* ended with the no-data outcome (None, None, None and the 'No data
\* available' warning, no error) and the cache holds no entry for the keyword.
C1_EmptyFetchEndsWithNoData ==
    (InCall /\ trace # <<>> /\ trace[Len(trace)] = GotEmpty) =>
        /\ pc = "done"
        /\ ret = NoneTuple
        /\ msgs = {"No data available"}
        /\ cache[keyword] = <<>>

\* C2 (as claimed): a call made on the same calendar day as an earlier
\* completed run of the function for the same keyword performs no fetch and
\* returns what that run returned.
C2_OneFetchPerDay ==
    (InCall /\ prev[keyword] # <<>> /\ SameDay(prev[keyword][1].at, started)) =>
        /\ pc = "done"
        /\ trace = <<>>
        /\ ret = prev[keyword][1].value

\* C2 (amended): a call that starts less than ttl seconds after an earlier
\* run of the function for the same keyword returned performs no pre-call
\* delay and no fetch, and returns what that run returned.
C2_OneFetchPerTtl ==
    (InCall /\ prev[keyword] # <<>> /\ started - prev[keyword][1].at < ttl) =>
        /\ pc = "done"
        /\ ~delayed
        /\ trace = <<>>
        /\ ret = prev[keyword][1].value

C2_Witness ==
    /\ pc = "done"
    /\ keyword = <<"a">>
    /\ prev[keyword] # <<>>
    /\ started > prev[keyword][1].at
    /\ started - prev[keyword][1].at < ttl
    /\ trace = <<>>
    /\ ret.hourly_interest # <<>>

\* C3: a call whose keyword is empty or only whitespace is over at once with
\* a validation error, (None, None, None), no pre-call delay, no fetch
\* attempt and no backoff sleep.
C3_BlankKeywordNoFetch ==
    (InCall /\ AllWhitespace(keyword)) =>
        /\ pc = "done"
        /\ ~delayed
        /\ trace = <<>>
        /\ sleeps = 0
        /\ ret = NoneTuple
        /\ msgs \in {{"Please enter a valid keyword"}, {"Please enter a keyword to analyze"}}

C3_Witness ==
    /\ pc = "done"
    /\ keyword = <<" ", " ">>
    /\ ~viaMain
    /\ ~hit
    /\ msgs = {"Please enter a valid keyword"}
    /\ trace = <<>>

\* C4: a call whose attempts all failed with 429 until the budget was spent
\* reports the rate-limited failure and leaves no cache entry for the keyword.
C4_RateLimitedNotCached ==
    (pc = "done" /\ ~hit /\ Len(trace) = max_attempts /\ TraceIs429(max_attempts)) =>
        /\ msgs = {"Too many requests"}
        /\ cache[keyword] = <<>>

\* C5 (as claimed): after three attempts that failed with 429, while the
\* service holds data, the call goes on to a fourth attempt and ends with the
\* analysis of its data and no error.
C5_FourthAttempt ==
    (InCall /\ TraceIs429(3) /\ feed # <<>>) =>
        \/ pc \in {"backoff", "loop"}
        \/ /\ pc = "done"
           /\ Len(trace) = 4
           /\ trace[4] = GotData
           /\ ret = Analyse(data[1])
           /\ msgs = {}

\* C5 (amended): after two attempts that failed with 429 the call goes on to
\* a third; if that one returns data the call ends with the analysis of that
\* data and no error; if it raises, the call ends there with the error
\* reported and no analysis.
C5_ThirdAttempt ==
    (InCall /\ TraceIs429(2)) =>
        /\ Len(trace) = 2 => pc \in {"backoff", "loop"} /\ msgs = {}
        /\ (Len(trace) = 3 /\ trace[3] = GotData) =>
              /\ pc = "done"
              /\ data # <<>> /\ data[1] # <<>>
              /\ ret = Analyse(data[1])
              /\ msgs = {}
        /\ (Len(trace) = 3 /\ trace[3] \in Exceptions) =>
              /\ pc = "done"
              /\ ret = NoneTuple
              /\ msgs = {Report(trace[3])}

C5_Witness ==
    /\ pc = "done"
    /\ trace = <<E429, E429, GotData>>
    /\ sleeps = 2
    /\ ret.hourly_interest # <<>>
    /\ msgs = {}

\* C6: a call makes at most max_attempts fetch attempts.
C6_AtMostMaxAttempts == Len(trace) <= max_attempts

\* C7: best_hour is a key of the smoothed curve, no key has a greater value,
\* and no smaller key has the same value.
C7_BestHourIsFirstMaximum ==
    Succeeded =>
        \E i \in DOMAIN Curve.index :
            /\ Curve.index[i] = ret.best_hour[1]
            /\ \A j \in DOMAIN Curve.index :
                  /\ RLe(Curve.values[j], Curve.values[i])
                  /\ REq(Curve.values[j], Curve.values[i]) =>
                        Curve.index[i] <= Curve.index[j]

C7_Witness ==
    /\ Succeeded
    /\ ~hit
    /\ \E i, j \in DOMAIN Curve.index :
          /\ Curve.index[i] < Curve.index[j]
          /\ Curve.index[i] = ret.best_hour[1]
          /\ REq(Curve.values[i], Curve.values[j])
          /\ \E k \in DOMAIN Curve.index : RLt(Curve.values[k], Curve.values[i])

\* C8: the confidence score is absent or within [0, 100], and absent when
\* the mean of the curve is zero.
C8_ConfidenceInRange ==
    Succeeded =>
        /\ \/ ret.confidence_score = <<>>
           \/ /\ ScoreAtLeast0(ret.confidence_score[1])
              /\ ScoreAtMost100(ret.confidence_score[1])
        /\ RSum(Curve.values)[1] = 0 => ret.confidence_score = <<>>

\* C9 (as claimed): the curve has the hours of the frame as keys and its
\* value at h is the mean of the bucket means at those of h-1, h, h+1 that
\* are hours of the frame.
C9_HourAdjacentMean ==
    (Succeeded /\ ~hit) =>
        /\ {Curve.index[i] : i \in DOMAIN Curve.index} = HoursOf(data[1])
        /\ \A i \in DOMAIN Curve.index :
              LET h == Curve.index[i]
              IN  REq(Curve.values[i],
                      MeanOver(data[1], {g \in HoursOf(data[1]) : g - h \in -1..1}))

\* C9 (amended): the curve has the hours of the frame as keys and its value
\* at h is the mean of the bucket means at h, at the nearest hour of the frame
\* below h and at the nearest one above h, whatever their distance from h.
C9_NeighbouringKeyMean ==
    (Succeeded /\ ~hit) =>
        /\ {Curve.index[i] : i \in DOMAIN Curve.index} = HoursOf(data[1])
        /\ Cardinality(HoursOf(data[1])) = Len(Curve.index)
        /\ \A i \in DOMAIN Curve.index :
              LET h     == Curve.index[i]
                  H     == HoursOf(data[1])
                  below == {g \in H : g < h /\ \A f \in H : f < h => f <= g}
                  above == {g \in H : g > h /\ \A f \in H : f > h => f >= g}
              IN  REq(Curve.values[i], MeanOver(data[1], below \cup {h} \cup above))

C9_Witness ==
    /\ Succeeded
    /\ ~hit
    /\ HoursOf(data[1]) = {0, 2, 4, 23}
    /\ \E i \in DOMAIN Curve.index :
          /\ Curve.index[i] = 2
          /\ ~REq(Curve.values[i], BucketMean(data[1], 2))
          /\ REq(Curve.values[i], MeanOver(data[1], {0, 2, 4}))

\* C10: an attempt that fails with a non-transient error is the last attempt
\* of its call, and the call ends with it.
C10_NonTransientFailsAtOnce ==
    \A i \in DOMAIN trace :
        trace[i] \in NonTransient => (i = Len(trace) /\ pc = "done")

====
